---------------------------- MODULE Spec2Model ----------------------------
(***************************************************************************)
(* Model of src/SetUp/add_ligand/add_ligand.py: the Fragment class, the    *)
(* pairwise distance filter, the objective function and the add_ligand     *)
(* driver; and of assignFrags of src/SetUp/autoDefine/commandWriters.py.   *)
(*                                                                         *)
(* Representation of numbers.  Coordinates are np.float64 values in        *)
(* Angstrom; the model keeps them as integers in units of 1/Scale          *)
(* Angstrom.  Rotation parameters are kept as exact rationals times the    *)
(* square root of a rational, which is the shape orient_frag and           *)
(* rotate_frag produce.  Inputs whose results are not representable in     *)
(* this way (an irrational matrix entry, a centroid off the grid) are not  *)
(* drawn; math.sqrt of a negative number is the ValueError the code        *)
(* raises.                                                                 *)
(***************************************************************************)
EXTENDS Integers, Sequences, FiniteSets, TLC

\* Resolution of the fixed-point coordinates: 1/Scale Angstrom.
Scale == 2

\* self.precision = 1e-5, kept as its inverse.
PrecisionInv == 100000

\* cut=3.0 (Angstrom), the default of calc_dists.
Cut == 3

\* The magnitude the source itself uses for a saturating start vector
\* ([-1000,-1000,-1000]); expit(-1000) = 0.0 and expit(1000) = 1.0 in float64.
Big == 1000

-----------------------------------------------------------------------------
(* Integer and vector helpers *)

Abs(n) == IF n < 0 THEN -n ELSE n

RECURSIVE GCD(_, _)
GCD(a, b) == IF b = 0 THEN Abs(a) ELSE GCD(Abs(b), Abs(a) % Abs(b))

RECURSIVE SqrtBin(_, _, _)
SqrtBin(n, lo, hi) ==
    IF lo >= hi THEN lo
    ELSE IF ((lo + hi + 1) \div 2) * ((lo + hi + 1) \div 2) <= n
        THEN SqrtBin(n, (lo + hi + 1) \div 2, hi)
        ELSE SqrtBin(n, lo, ((lo + hi + 1) \div 2) - 1)

\* floor(sqrt(n)) for 0 <= n
ISqrt(n) == SqrtBin(n, 0, IF n < 46340 THEN n ELSE 46340)

SquareOf(r) == r * r

IsSquare(n) == n >= 0 /\ SquareOf(ISqrt(n)) = n

Dot(u, v) == u[1] * v[1] + u[2] * v[2] + u[3] * v[3]

VAdd(u, v) == <<u[1] + v[1], u[2] + v[2], u[3] + v[3]>>

VSub(u, v) == <<u[1] - v[1], u[2] - v[2], u[3] - v[3]>>

VNeg(u) == <<-u[1], -u[2], -u[3]>>

Cross(u, v) == <<u[2] * v[3] - u[3] * v[2],
                 u[3] * v[1] - u[1] * v[3],
                 u[1] * v[2] - u[2] * v[1]>>

Zero3 == <<0, 0, 0>>

RECURSIVE SumVecs(_)
SumVecs(s) == IF s = <<>> THEN Zero3 ELSE VAdd(Head(s), SumVecs(Tail(s)))

\* np.delete(arr, i, axis=0) with i 1-based
DeleteAt(s, i) == [j \in 1..(Len(s) - 1) |-> IF j < i THEN s[j] ELSE s[j + 1]]

-----------------------------------------------------------------------------
(* Rotation parameters: the vector (n / d) * sqrt(sn / sd), d > 0, sd > 0. *)

Rots(n, d, sn, sd) == [n |-> n, d |-> d, sn |-> sn, sd |-> sd]

\* A plain rational parameter vector n / d, such as flip or expit(x).
RatRots(n, d) == Rots(n, d, 1, 1)

NonZero(g) == IF g = 0 THEN 1 ELSE g

DivRots(r, g, h) ==
    Rots(<<r.n[1] \div g, r.n[2] \div g, r.n[3] \div g>>, r.d \div g,
         r.sn \div h, r.sd \div h)

\* The same vector in lowest terms
NormRots(r) ==
    DivRots(r, NonZero(GCD(GCD(GCD(r.n[1], r.n[2]), r.n[3]), r.d)),
               NonZero(GCD(r.sn, r.sd)))

\* Variant of RotMatOf: bc+ad in place of bc-ad on line 244
RotMatOfSym(b, c, d, s, den, an, q) ==
    [err |-> "", exact |-> TRUE, den |-> den,
     m |-> << <<an + (b*b - c*c - d*d) * s, 2 * (b*c*s + q*d), 2 * (b*d*s - q*c)>>,
              <<2 * (b*c*s + q*d), an + (c*c - b*b - d*d) * s, 2 * (c*d*s + q*b)>>,
              <<2 * (b*d*s + q*c), 2 * (c*d*s - q*b), an + (d*d - b*b - c*c) * s>> >>]

\* rotate_frag, lines 237-245: the matrix r_mat as integer numerators over
\* the common denominator den.  aa = 1 - dot(rots, rots) = an / den;
\* math.sqrt(aa) raises ValueError when aa < 0.  a * rots[i] is
\* sqrt(an * sn) * n[i] / den, representable when an * sn is a square; with
\* rots = 0 the matrix is the identity whatever the scalar factor was.
RotMatOf(b, c, d, s, den, an, q) ==
    [err |-> "", exact |-> TRUE, den |-> den,
     m |-> << <<an + (b*b - c*c - d*d) * s, 2 * (b*c*s + q*d), 2 * (b*d*s - q*c)>>,
              <<2 * (b*c*s - q*d), an + (c*c - b*b - d*d) * s, 2 * (c*d*s + q*b)>>,
              <<2 * (b*d*s + q*c), 2 * (c*d*s - q*b), an + (d*d - b*b - c*c) * s>> >>]

RotMatAn(r, den, an) ==
    IF an < 0 THEN [err |-> "ValueError", exact |-> TRUE]
    ELSE IF r.n = Zero3
        THEN [err |-> "", exact |-> TRUE, den |-> 1,
              m |-> << <<1, 0, 0>>, <<0, 1, 0>>, <<0, 0, 1>> >>]
    ELSE IF ~IsSquare(an * r.sn) THEN [err |-> "", exact |-> FALSE]
    ELSE RotMatOf(r.n[1], r.n[2], r.n[3], r.sn, den, an, ISqrt(an * r.sn))

RotMatDen(r, den) == RotMatAn(r, den, den - Dot(r.n, r.n) * r.sn)

RotMatNorm(r) == RotMatDen(r, r.d * r.d * r.sd)

RotMat(r0) == RotMatNorm(NormRots(r0))

\* r_mat . v, before the division by den
MatVec(m, v) == <<Dot(m[1], v), Dot(m[2], v), Dot(m[3], v)>>

Divides(k, v) == v[1] % k = 0 /\ v[2] % k = 0 /\ v[3] % k = 0

VDiv(v, k) == <<v[1] \div k, v[2] \div k, v[3] \div k>>

\* np.dot(points, r_mat.T) for a sequence of points
RotPoints(rm, pts) == [i \in 1..Len(pts) |-> VDiv(MatVec(rm.m, pts[i]), rm.den)]

RotExactOn(rm, pts) ==
    rm.exact /\ (rm.err = "" => \A i \in 1..Len(pts) : Divides(rm.den, MatVec(rm.m, pts[i])))

-----------------------------------------------------------------------------
(* Coordinate files.  A file is a sequence of lines; a control line is a   *)
(* '$...' line of a Turbomole file or one of the two header lines of an    *)
(* xyz file, an atom line carries three coordinates and a label (in the    *)
(* column order of its format).                                           *)

CtlLine(t) == [k |-> "ctl", text |-> t]

\* The numbers of an atom line are pos / Scale * bohr_2_ang^bexp: bexp = 0
\* for numbers in Angstrom, bexp = -1 for the same position in bohr.
AtomLine(p, l, e) == [k |-> "atom", pos |-> p, label |-> l, bexp |-> e]

\* str.capitalize() on the labels used
Capitalize(l) ==
    CASE l \in {"x", "X"} -> "X"
      [] l \in {"c", "C"} -> "C"
      [] l \in {"h", "H"} -> "H"
      [] l \in {"o", "O"} -> "O"
      [] l \in {"n", "N"} -> "N"
      [] l \in {"fe", "Fe", "FE"} -> "Fe"
      [] l \in {"zz", "Zz", "ZZ"} -> "Zz"
      [] OTHER -> l

\* read_coord, lines 133-148: atom lines between '$coord' and the next
\* line starting with '$'; the numbers are multiplied by bohr_2_ang
RECURSIVE ReadCoordFrom(_, _, _)
ReadCoordFrom(lines, i, started) ==
    IF i > Len(lines) THEN <<>>
    ELSE LET ln == lines[i]
         IN  IF ln.k = "ctl" /\ ln.text = "$coord"
                 THEN ReadCoordFrom(lines, i + 1, TRUE)
             ELSE IF started /\ ln.k = "ctl" THEN <<>>
             ELSE IF started
                 THEN <<[pos |-> ln.pos, label |-> Capitalize(ln.label),
                         bexp |-> ln.bexp + 1]>>
                      \o ReadCoordFrom(lines, i + 1, started)
             ELSE ReadCoordFrom(lines, i + 1, started)

read_coord(lines) == ReadCoordFrom(lines, 1, FALSE)

\* read_xyz, lines 167-180: every line after the first two
read_xyz(lines) ==
    [i \in 1..(IF Len(lines) > 2 THEN Len(lines) - 2 ELSE 0) |->
        [pos |-> lines[i + 2].pos, label |-> Capitalize(lines[i + 2].label),
         bexp |-> lines[i + 2].bexp]]

\* Variant of read: any tag other than 'Turbomole' is read as xyz
read_else_xyz(lines, f_type) ==
    IF f_type = "Turbomole" THEN [err |-> "", recs |-> read_coord(lines)]
    ELSE [err |-> "", recs |-> read_xyz(lines)]

\* Fragment.read, lines 103-115: the records read, or the failure of
\* 'raise NotImplemented' for any other tag
read(lines, f_type) ==
    IF f_type = "Turbomole" THEN [err |-> "", recs |-> read_coord(lines)]
    ELSE IF f_type = "xyz" THEN [err |-> "", recs |-> read_xyz(lines)]
    ELSE [err |-> "TypeError", recs |-> <<>>]

\* determine_file_type, lines 582-595, on the three kinds of file name
determine_file_type(file_name) ==
    IF file_name = "coord" THEN "Turbomole"
    ELSE IF file_name = "mol.xyz" THEN "xyz"
    ELSE "TypeError"

-----------------------------------------------------------------------------
(* Fragment *)

\* An attribute that has not been assigned yet
Unset == <<>>

\* The records read are stored as float64 Angstrom values on the grid
OnGrid(recs) == \A i \in 1..Len(recs) : recs[i].bexp = 0

\* The object after lines 54-59
FragAfterRead(name, recs) ==
    [file_name |-> name,
     coord     |-> [i \in 1..Len(recs) |-> recs[i].pos],
     at_labels |-> [i \in 1..Len(recs) |-> recs[i].label],
     connect   |-> Unset,
     hull      |-> Unset,
     hull_ats  |-> Unset,
     guess_hull |-> Unset]

\* Variant of ConnectIdx: only the first connector label is looked for
\* (at_labels.index('X') in place of np.where)
ConnectIdxFirst(fr) ==
    {i \in 1..Len(fr.at_labels) :
        /\ fr.at_labels[i] = "X"
        /\ \A j \in 1..(i - 1) : fr.at_labels[j] # "X"}

\* np.where(self.at_labels == 'X')[0], line 63
ConnectIdx(fr) == {i \in 1..Len(fr.at_labels) : fr.at_labels[i] = "X"}

\* Variant of ExtractAt: the np.delete calls of lines 72-73 are left out
ExtractAtKeep(fr, i) == [fr EXCEPT !.connect = fr.coord[i]]

\* lines 64-73: the connector is taken out of coord and at_labels
ExtractAt(fr, i) ==
    [fr EXCEPT !.connect = fr.coord[i],
               !.coord = DeleteAt(fr.coord, i),
               !.at_labels = DeleteAt(fr.at_labels, i)]

ExtractConnect(fr) ==
    ExtractAt(fr, CHOOSE j \in ConnectIdx(fr) : \A k \in ConnectIdx(fr) : j <= k)

\* shift_origin, lines 257-260
shift_origin(fr, new_origin) ==
    [fr EXCEPT !.coord = [i \in 1..Len(fr.coord) |-> VSub(fr.coord[i], new_origin)],
               !.connect = VSub(fr.connect, new_origin)]

\* Variant of rotate: the second value rotate_frag returns is dropped
rotate_coord_only(fr, rm) == [fr EXCEPT !.coord = RotPoints(rm, fr.coord)]

\* rotate, lines 252-254, with the matrix rotate_frag built
rotate(fr, rm) ==
    [fr EXCEPT !.coord = RotPoints(rm, fr.coord),
               !.connect = VDiv(MatVec(rm.m, fr.connect), rm.den)]

\* np.mean(self.coord, axis=0) is on the grid
MeanExact(coord) == Divides(Len(coord), SumVecs(coord))

Mean(coord) == VDiv(SumVecs(coord), Len(coord))

\* The parameters orient_frag builds (lines 274-283) for a connector c
\* relative to the centroid, m = |c|^2 in grid units:
\*   sin_rot^2 = (1 - c_z/con_mag)/2 = (m - Scale*c_z) / (2m)
\*   cross(z, c)/con_mag = (-Scale*c_y, Scale*c_x, 0) / m
OrientRots(c) ==
    LET m == Dot(c, c)
    IN  Rots(<<-Scale * c[2], Scale * c[1], 0>>, m, m - Scale * c[3], 2 * m)

\* orient_frag, lines 284-285: self.rotate(rots)
OrientRotate(sh, rm) ==
    IF rm.err # ""
        THEN [err |-> rm.err, exact |-> TRUE, rotated |-> FALSE, fr |-> sh]
    ELSE IF ~RotExactOn(rm, sh.coord \o <<sh.connect>>)
        THEN [err |-> "", exact |-> FALSE, rotated |-> FALSE, fr |-> sh]
    ELSE [err |-> "", exact |-> TRUE, rotated |-> TRUE, fr |-> rotate(sh, rm)]

\* orient_frag, lines 274-283, m = con_mag in grid units
OrientShifted(sh, m, r) ==
    IF m * PrecisionInv < Scale * Scale
        THEN [err |-> "", exact |-> TRUE, rotated |-> FALSE, fr |-> sh]
    ELSE IF r.sn < 0
        THEN [err |-> "ValueError", exact |-> TRUE, rotated |-> FALSE, fr |-> sh]
    ELSE OrientRotate(sh, RotMat(r))

OrientAt(sh) == OrientShifted(sh, Dot(sh.connect, sh.connect), OrientRots(sh.connect))

\* orient_frag, lines 265-285
orient_frag(fr) == OrientAt(shift_origin(fr, Mean(fr.coord)))

-----------------------------------------------------------------------------
(* scipy.spatial.ConvexHull on the atom positions, in exact arithmetic.    *)
(* Qhull needs at least four points that are not all in one plane and      *)
(* raises QhullError otherwise; in three dimensions .vertices lists the    *)
(* hull's vertices in input order.                                         *)

\* Six times the signed volume of the tetrahedron a b c d
Orient3(a, b, c, d) == Dot(Cross(VSub(b, a), VSub(c, a)), VSub(d, a))

SameSide(x, v) == (v > 0 /\ x >= 0) \/ (v < 0 /\ x <= 0)

InSegment(p, a, b) ==
    /\ a # b
    /\ Cross(VSub(p, a), VSub(b, a)) = Zero3
    /\ Dot(VSub(p, a), VSub(b, a)) >= 0
    /\ Dot(VSub(p, a), VSub(b, a)) <= Dot(VSub(b, a), VSub(b, a))

InTriangle(p, a, b, c) ==
    LET n == Cross(VSub(b, a), VSub(c, a))
    IN  /\ n # Zero3
        /\ Dot(n, VSub(p, a)) = 0
        /\ Dot(Cross(VSub(b, a), VSub(p, a)), n) >= 0
        /\ Dot(Cross(VSub(c, b), VSub(p, b)), n) >= 0
        /\ Dot(Cross(VSub(a, c), VSub(p, c)), n) >= 0

InTetra(p, a, b, c, d) ==
    LET v == Orient3(a, b, c, d)
    IN  /\ v # 0
        /\ SameSide(Orient3(p, b, c, d), v)
        /\ SameSide(Orient3(a, p, c, d), v)
        /\ SameSide(Orient3(a, b, p, d), v)
        /\ SameSide(Orient3(a, b, c, p), v)

\* p is a convex combination of points of S (Caratheodory: of at most four)
InConv(p, S) ==
    \/ p \in S
    \/ \E a, b \in S : InSegment(p, a, b)
    \/ \E a, b, c \in S : InTriangle(p, a, b, c)
    \/ \E a, b, c, d \in S : InTetra(p, a, b, c, d)

Range(s) == {s[i] : i \in 1..Len(s)}

Degenerate(coord) ==
    \/ Len(coord) < 4
    \/ \A i, j, k, l \in 1..Len(coord) :
           Orient3(coord[i], coord[j], coord[k], coord[l]) = 0

\* ConvexHull(coord).vertices as a set of 1-based indices
HullVertices(coord) ==
    {i \in 1..Len(coord) :
        ~InConv(coord[i], {coord[j] : j \in (1..Len(coord)) \ {i}})}

RECURSIVE SortedSeq(_)
SortedSeq(S) ==
    IF S = {} THEN <<>>
    ELSE LET m == CHOOSE x \in S : \A y \in S : x <= y
         IN  <<m>> \o SortedSeq(S \ {m})

\* np.where(self.coord == at)[0][0], line 305: the first row with a
\* component equal to the same component of at
FirstMatchingRow(coord, at) ==
    CHOOSE i \in 1..Len(coord) :
        /\ \E c \in 1..3 : coord[i][c] = at[c]
        /\ \A j \in 1..(i - 1) : \A c \in 1..3 : coord[j][c] # at[c]

HullOf(coord, idx) == [i \in 1..Len(idx) |-> coord[idx[i]]]

HullAts(fr, hull) ==
    [i \in 1..Len(hull) |-> fr.at_labels[FirstMatchingRow(fr.coord, hull[i])]]

BuildHullOf(fr, hull) == [err |-> "", hull |-> hull, hull_ats |-> HullAts(fr, hull)]

\* build_hull, lines 290-308
build_hull(fr) ==
    IF Degenerate(fr.coord) THEN [err |-> "QhullError", hull |-> Unset, hull_ats |-> Unset]
    ELSE BuildHullOf(fr, HullOf(fr.coord, SortedSeq(HullVertices(fr.coord))))

\* len(frag), lines 91-93
FragLen(fr) == Len(fr.hull)

\* Variant of assign_roles: '<' in place of '<=' on line 606
assign_roles_strict(len1, len2) == IF len1 < len2 THEN <<1, 2>> ELSE <<2, 1>>

\* add_ligand, lines 606-609: the indices <<s_frag, f_frag>>
assign_roles(len1, len2) == IF len1 <= len2 THEN <<1, 2>> ELSE <<2, 1>>

\* align_frags, lines 327-332: whether self (and not other_frag) is rot
RotIsSelf(self_len, other_len) == self_len <= other_len

\* flip = np.array([1,0,0]), line 337
flip == RatRots(<<1, 0, 0>>, 1)

\* Variant of AlignRot: the last shift is by [0,0,dist] in place of
\* [0,0,-dist]
AlignRotBelow(r0, d) ==
    shift_origin(rotate(shift_origin(r0, r0.connect), RotMat(flip)), <<0, 0, d>>)

\* Variant of AlignAnchor: line 361 is left out
AlignAnchorStay(a0) == a0

\* align_frags, lines 337-361, on the fragment chosen as rot
AlignRot(r0, d) ==
    shift_origin(rotate(shift_origin(r0, r0.connect), RotMat(flip)), <<0, 0, -d>>)

\* align_frags, line 361, on the fragment chosen as anchor
AlignAnchor(a0) == shift_origin(a0, a0.connect)

\* align_frags, lines 327-361
align_frags(self, other_frag, d) ==
    IF RotIsSelf(FragLen(self), FragLen(other_frag))
        THEN [rot_is_self |-> TRUE, rot |-> AlignRot(self, d),
              anchor |-> AlignAnchor(other_frag)]
        ELSE [rot_is_self |-> FALSE, rot |-> AlignRot(other_frag, d),
              anchor |-> AlignAnchor(self)]

-----------------------------------------------------------------------------
(* Force field.  The parameters of the table are kept in thousandths. *)

atom(polar, eff_ele, sep_fact, dep_fact) ==
    [polar |-> polar, eff_ele |-> eff_ele, sep_fact |-> sep_fact, dep_fact |-> dep_fact]

\* _init_MMFF94, lines 402-429
init_MMFF94 ==
    ("H" :> atom(250, 800, 4200, 1209)) @@ ("Li" :> atom(150, 2000, 4000, 1300))
    @@ ("C" :> atom(1050, 2490, 3890, 1282)) @@ ("N" :> atom(150, 2820, 3890, 1282))
    @@ ("O" :> atom(700, 3150, 3890, 1282)) @@ ("F" :> atom(350, 3480, 3890, 1282))
    @@ ("Na" :> atom(400, 3500, 4000, 1300)) @@ ("Mg" :> atom(350, 3500, 4000, 1300))
    @@ ("P" :> atom(3600, 4500, 3320, 1345)) @@ ("S" :> atom(3000, 4800, 3320, 1345))
    @@ ("Cl" :> atom(2300, 5100, 3320, 1345)) @@ ("K" :> atom(1000, 5000, 4000, 1300))
    @@ ("Ca" :> atom(900, 5000, 4000, 1400)) @@ ("Fe" :> atom(450, 6000, 4000, 1400))
    @@ ("Cu" :> atom(350, 6000, 4000, 1400)) @@ ("Zn" :> atom(430, 6000, 4000, 1400))
    @@ ("Br" :> atom(3400, 6000, 3190, 1359)) @@ ("I" :> atom(5500, 6950, 3080, 1404))

\* Variant of ForceField: the test of the name on line 385 is left out
ForceFieldAny(force_field) ==
    [err |-> "", name |-> force_field, at_dict |-> init_MMFF94]

\* ForceField.__init__, lines 379-396: the object, or the failure of
\* 'raise NotImplemented' for any other name
ForceField(force_field) ==
    IF force_field = "MMFF94"
        THEN [err |-> "", name |-> force_field, at_dict |-> init_MMFF94]
        ELSE [err |-> "TypeError"]

\* Variant of ParamsOf: the entry taken on a KeyError is the first of the
\* table ('H') in place of 'Fe'
ParamsOfFirst(ff, l) ==
    IF l \in DOMAIN ff.at_dict THEN ff.at_dict[l] ELSE ff.at_dict["H"]

\* self.at_dict[l] inside try, with the 'Fe' entry of the except KeyError
\* branch (lines 445-450, 454-459, 478-499)
ParamsOf(ff, l) ==
    IF l \in DOMAIN ff.at_dict THEN ff.at_dict[l] ELSE ff.at_dict["Fe"]

\* r = sep_fact * polar, lines 446-447
SepRadius(ff, l) == ParamsOf(ff, l).sep_fact * ParamsOf(ff, l).polar

\* The value of the expression of lines 461-463 for r1, r2, kept as its two
\* arguments.  For r1 = r2 it is r1: gam12 = 0, exp(0) = 1, .5*(r1 + r1) = r1.
SepValue(r1, r2) == [r1 |-> r1, r2 |-> r2]

\* _sep_MMFF94, lines 437-465; equal labels return r1 (line 452), the value
\* SepValue(r1, r1) stands for
sep_MMFF94(ff, label) ==
    IF label[1] = label[2]
        THEN SepValue(SepRadius(ff, label[1]), SepRadius(ff, label[1]))
        ELSE SepValue(SepRadius(ff, label[1]), SepRadius(ff, label[2]))

\* _depth_MMFF94, lines 470-506: the value of the expression of lines
\* 502-504, kept as its arguments in the places they have in it
depth_MMFF94(ff, label, sep) ==
    [g1 |-> ParamsOf(ff, label[1]).dep_fact, g2 |-> ParamsOf(ff, label[2]).dep_fact,
     p1 |-> ParamsOf(ff, label[1]).polar, p2 |-> ParamsOf(ff, label[2]).polar,
     n1 |-> ParamsOf(ff, label[1]).eff_ele, n2 |-> ParamsOf(ff, label[2]).eff_ele,
     sep |-> sep]

\* _inter_MMFF94, lines 509-526: e_vdw as a value of sep, w_depth and dist
\* (dist is kept as its square)
inter_MMFF94(ff, dist2, label) ==
    [sep |-> sep_MMFF94(ff, label),
     w_depth |-> depth_MMFF94(ff, label, sep_MMFF94(ff, label)),
     dist2 |-> dist2]

-----------------------------------------------------------------------------
(* Objective function *)

\* scipy.special.expit on the sample values: 0.0, 0.5 and 1.0, as the
\* parameter vector n / 2
Expit1(v) == IF v <= -Big THEN 0 ELSE IF v >= Big THEN 2 ELSE 1

expit(xv) == RatRots(<<Expit1(xv[1]), Expit1(xv[2]), Expit1(xv[3])>>, 2)

\* calc_dists, lines 532-557.  A retained pair is kept as the squared
\* distance (the value whose math.sqrt is stored) and the two labels;
\* cut2 = cut**2 in grid units.
Dist2(p, q) == Dot(VSub(p, q), VSub(p, q))

\* Variant of Cut2: the cutoff is not squared
Cut2Unsquared == Cut * Scale

Cut2 == (Cut * Scale) * (Cut * Scale)

RECURSIVE CalcDistsFrom(_, _, _, _)
CalcDistsFrom(s_frag, f_frag, i, j) ==
    IF i > FragLen(s_frag) THEN <<>>
    ELSE IF j > FragLen(f_frag) THEN CalcDistsFrom(s_frag, f_frag, i + 1, 1)
    ELSE (IF Dist2(s_frag.hull[i], f_frag.hull[j]) > Cut2
              THEN <<[dist2 |-> Dist2(s_frag.hull[i], f_frag.hull[j]),
                      labels |-> <<s_frag.hull_ats[i], f_frag.hull_ats[j]>>]>>
              ELSE <<>>)
         \o CalcDistsFrom(s_frag, f_frag, i, j + 1)

calc_dists(s_frag, f_frag) == CalcDistsFrom(s_frag, f_frag, 1, 1)

\* Variant of ScoreWith: the rotated hull is stored in hull as well
ScoreWithHullMoved(s2, f_frag) ==
    [err |-> "", exact |-> TRUE, s_frag |-> [s2 EXCEPT !.hull = s2.guess_hull],
     score |-> calc_dists(s2, f_frag)]

\* score_rotation, lines 569-579: the rotated hull is stored in guess_hull,
\* the distances are taken by calc_dists from the two fragments, and the
\* score is the sum of f_field.inter over the retained pairs, kept here as
\* the sequence of the summed terms' arguments.
ScoreWith(s2, f_frag) ==
    [err |-> "", exact |-> TRUE, s_frag |-> s2, score |-> calc_dists(s2, f_frag)]

\* Variant of ScoreRotated: the distances are taken from the hull the call
\* before stored in guess_hull
ScoreRotatedStale(rm, s_frag, f_frag) ==
    IF rm.err # "" THEN [err |-> rm.err, exact |-> TRUE]
    ELSE IF ~RotExactOn(rm, s_frag.hull) THEN [err |-> "", exact |-> FALSE]
    ELSE [err |-> "", exact |-> TRUE,
          s_frag |-> [s_frag EXCEPT !.guess_hull = RotPoints(rm, s_frag.hull)],
          score |-> calc_dists([s_frag EXCEPT !.hull = IF s_frag.guess_hull = Unset
                                                          THEN s_frag.hull
                                                          ELSE s_frag.guess_hull],
                               f_frag)]

ScoreRotated(rm, s_frag, f_frag) ==
    IF rm.err # "" THEN [err |-> rm.err, exact |-> TRUE]
    ELSE IF ~RotExactOn(rm, s_frag.hull) THEN [err |-> "", exact |-> FALSE]
    ELSE ScoreWith([s_frag EXCEPT !.guess_hull = RotPoints(rm, s_frag.hull)], f_frag)

score_rotation(xv, s_frag, f_frag) == ScoreRotated(RotMat(expit(xv)), s_frag, f_frag)

-----------------------------------------------------------------------------
(* Writers *)

Upper(l) == CASE l = "Fe" -> "FE" [] l = "Zz" -> "ZZ" [] OTHER -> l

Lower(l) ==
    CASE l = "C" -> "c" [] l = "H" -> "h" [] l = "O" -> "o" [] l = "N" -> "n"
      [] l = "Fe" -> "fe" [] l = "Zz" -> "zz" [] l = "X" -> "x" [] OTHER -> l

\* _write_xyz with header=False, lines 212-226
write_xyz(fr) ==
    [i \in 1..Len(fr.coord) |-> AtomLine(fr.coord[i], Upper(fr.at_labels[i]), 0)]

\* _write_coord with header=False, lines 197-209: the stored numbers are
\* written as they are
write_coord(fr) ==
    [i \in 1..Len(fr.coord) |-> AtomLine(fr.coord[i], Lower(fr.at_labels[i]), 0)]

\* Fragment.write, lines 183-194, for the two tags add_ligand lets through
write(fr, out_type) == IF out_type = "xyz" THEN write_xyz(fr) ELSE write_coord(fr)

-----------------------------------------------------------------------------
(* Inputs of a run *)

\* Largest target distance drawn, in grid units
MaxDist == 2

\* Largest number of objective evaluations the minimizer makes after the
\* one at the start vector
MaxEvals == 2

At(p, l) == [pos |-> p, label |-> l]

\* A regular tetrahedron about the origin, connector 1 Angstrom off the
\* centroid along x (listed in the middle of the file)
GTet == <<At(<<4, 4, 4>>, "c"), At(<<4, -4, -4>>, "h"), At(<<2, 0, 0>>, "x"),
          At(<<-4, 4, -4>>, "h"), At(<<-4, -4, 4>>, "o")>>

\* An octahedron about (2, 2, 0), connector above the centroid
GOct == <<At(<<10, 2, 0>>, "n"), At(<<-6, 2, 0>>, "n"), At(<<2, 10, 0>>, "o"),
          At(<<2, -6, 0>>, "O"), At(<<2, 2, 8>>, "c"), At(<<2, 2, -8>>, "zz"),
          At(<<2, 2, 4>>, "X")>>

\* A triangular bipyramid in general position (five hull points), connector
\* 1 Angstrom off the centroid along y
GPyr == <<At(<<0, 2, 0>>, "x"), At(<<-6, -5, -1>>, "fe"), At(<<6, -3, 0>>, "c"),
          At(<<1, 8, 1>>, "n"), At(<<2, 1, 9>>, "h"), At(<<-3, -1, -9>>, "o")>>

\* A tetrahedron with a fifth atom inside, connector at the centroid
GTetIn == <<At(<<4, 4, 4>>, "o"), At(<<4, -4, -4>>, "h"), At(<<-4, 4, -4>>, "h"),
            At(<<-4, -4, 4>>, "h"), At(<<0, 0, 0>>, "c"), At(<<0, 0, 0>>, "x")>>

GEmpty == <<>>

GOnlyX == <<At(<<0, 0, 0>>, "x")>>

GNoX == <<At(<<4, 4, 4>>, "c"), At(<<4, -4, -4>>, "h"), At(<<-4, 4, -4>>, "h"),
          At(<<-4, -4, 4>>, "h")>>

GTwoX == <<At(<<4, 4, 4>>, "c"), At(<<4, -4, -4>>, "h"), At(<<-4, 4, -4>>, "h"),
           At(<<-4, -4, 4>>, "h"), At(<<2, 0, 0>>, "x"), At(<<0, 2, 0>>, "X")>>

GOne == <<At(<<2, 2, 2>>, "c"), At(<<2, 2, 6>>, "x")>>

GThree == <<At(<<6, 0, 0>>, "c"), At(<<-3, 3, 0>>, "h"), At(<<-3, -3, 0>>, "h"),
            At(<<0, 0, 4>>, "x")>>

GPlanar == <<At(<<4, 4, 0>>, "c"), At(<<4, -4, 0>>, "h"), At(<<-4, 4, 0>>, "h"),
             At(<<-4, -4, 0>>, "h"), At(<<0, 0, 4>>, "x")>>

\* The tetrahedron with its connector half an Angstrom above the centroid
GNear == <<At(<<4, 4, 4>>, "c"), At(<<4, -4, -4>>, "h"), At(<<-4, 4, -4>>, "h"),
           At(<<-4, -4, 4>>, "h"), At(<<0, 0, 1>>, "x")>>

\* The tetrahedron with its connector at (0.5, 0, 0.5) Angstrom from the
\* centroid: dot(connect, z) = dot(connect, connect)
GSkew == <<At(<<4, 4, 4>>, "c"), At(<<4, -4, -4>>, "h"), At(<<-4, 4, -4>>, "h"),
           At(<<-4, -4, 4>>, "h"), At(<<1, 0, 1>>, "x")>>

Geoms == {GTet, GOct, GPyr, GTetIn, GEmpty, GOnlyX, GNoX, GTwoX, GOne, GThree,
          GPlanar, GNear, GSkew}

\* The geometries read under every tag and file name
FormatGeoms == {GTet, GEmpty, GOnlyX}

InTags == {"", "Turbomole", "xyz", "pdb"}

OutTags == {"xyz", "Turbomole", "pdb"}

FileNames == {"coord", "mol.xyz", "mol.dat"}

Input(g, tag, name) == [atoms |-> g, tag |-> tag, name |-> name]

Inputs ==
    {Input(g, "xyz", "mol.dat") : g \in Geoms}
    \cup {Input(g, "", n) : g \in FormatGeoms, n \in FileNames}
    \cup {Input(g, t, "mol.dat") : g \in FormatGeoms, t \in InTags \ {""}}

\* The layout the file on disk has: that of the format it is read as
Layout(inp) ==
    IF inp.tag = "" THEN determine_file_type(inp.name) ELSE inp.tag

\* The lines of the input file
FileLines(inp) ==
    IF Layout(inp) = "Turbomole"
        THEN <<CtlLine("$coord")>>
             \o [i \in 1..Len(inp.atoms) |->
                    AtomLine(inp.atoms[i].pos, inp.atoms[i].label, -1)]
             \o <<CtlLine("$end")>>
        ELSE <<CtlLine("count"), CtlLine("comment")>>
             \o [i \in 1..Len(inp.atoms) |->
                    AtomLine(inp.atoms[i].pos, inp.atoms[i].label, 0)]

XVals == {-Big, 0, Big}

\* The vectors the minimizer is let try: those whose squashed parameters
\* give a representable rotation or make rotate_frag fail
XDomain == {xv \in XVals \X XVals \X XVals : RotMat(expit(xv)).exact}

-----------------------------------------------------------------------------
(* The run of add_ligand(file1, file2, dist, file_t1, file_t2, out, out_t) *)

VARIABLES
    file,       \* file[k]: the k-th input file (atoms, tag given, file name)
    dist,       \* target distance, grid units
    out_t,      \* output format tag
    file_t,     \* file_t1, file_t2 as add_ligand holds them
    frag,       \* frag[k]: the k-th Fragment object, Unset before its constructor
    cur,        \* the fragment whose constructor is running
    s_frag,     \* index of the fragment add_ligand calls s_frag (0: not assigned)
    f_frag,     \* index of the fragment add_ligand calls f_frag
    rot,        \* index of the fragment align_frags called rot
    anchor,     \* index of the fragment align_frags called anchor
    f_field,    \* the force field object, Unset before its construction
    x,          \* the last vector for which score_rotation returned
    nevals,     \* objective evaluations made
    score,      \* the value score_rotation returned last
    opt,        \* the minimizer's result (x, success), Unset before it returns
    outfile,    \* the lines written to the output file, Unset before it is opened
    fs,         \* names of the files opened for writing
    pc,         \* position in add_ligand
    err,        \* the exception that ended the run, "" if none
    trace,      \* the steps taken, in order
    force_field, \* the name ForceField is constructed with
    evals,      \* the calls of score_rotation that returned: vector and value
    botSpecs,   \* commandWriters: the option lines of the directory's options file
    entries,    \* commandWriters: the option lines of the main options file
    defInp      \* commandWriters: the lines written to def.input

vars == <<file, dist, out_t, file_t, frag, cur, s_frag, f_frag, rot, anchor,
          f_field, x, nevals, score, opt, outfile, fs, pc, err, trace, force_field, evals,
          botSpecs, entries, defInp>>

Init ==
    /\ file \in [1..2 -> Inputs]
    /\ dist \in 1..MaxDist
    /\ out_t \in OutTags
    /\ file_t = [k \in 1..2 |-> file[k].tag]
    /\ frag = [k \in 1..2 |-> Unset]
    /\ cur = 1
    /\ s_frag = 0 /\ f_frag = 0 /\ rot = 0 /\ anchor = 0
    /\ f_field = Unset
    /\ x = Unset /\ nevals = 0 /\ score = Unset /\ opt = Unset
    /\ outfile = Unset
    /\ fs = {}
    /\ pc = "determine"
    /\ err = ""
    /\ trace = <<>>
    /\ force_field = "MMFF94"
    /\ evals = {}
    /\ botSpecs = <<>> /\ entries = <<>> /\ defInp = <<>>

\* Variant of Step: the run goes on at p after an exception as well
StepOn(e, p, step) ==
    /\ pc' = p
    /\ err' = e
    /\ trace' = Append(trace, step)

\* The step taken ends with exception e (the run is over) or, with e = "",
\* goes on at p
Step(e, p, step) ==
    /\ pc' = IF e # "" THEN "failed" ELSE p
    /\ err' = e
    /\ trace' = Append(trace, step)

ResolvedType(k) ==
    IF file_t[k] = "" THEN determine_file_type(file[k].name) ELSE file_t[k]

\* lines 599-602
DetermineTypes ==
    /\ pc = "determine"
    /\ file_t' = IF \E k \in 1..2 : ResolvedType(k) = "TypeError"
                     THEN file_t
                     ELSE [k \in 1..2 |-> ResolvedType(k)]
    /\ Step(IF \E k \in 1..2 : ResolvedType(k) = "TypeError" THEN "TypeError" ELSE "",
            "read", "determine")
    /\ UNCHANGED <<botSpecs, entries, defInp, force_field, evals, file, dist, out_t, frag, cur, s_frag, f_frag, rot, anchor,
                   f_field, x, nevals, score, opt, outfile, fs>>

FragReadAs(r) ==
    /\ OnGrid(r.recs)
    /\ frag' = IF r.err # "" THEN frag
               ELSE [frag EXCEPT ![cur] = FragAfterRead(file[cur].name, r.recs)]
    /\ Step(r.err, "connect", "read")

\* Fragment.__init__, lines 54-59
FragRead ==
    /\ pc = "read"
    /\ FragReadAs(read(FileLines(file[cur]), file_t[cur]))
    /\ UNCHANGED <<botSpecs, entries, defInp, force_field, evals, file, dist, out_t, file_t, cur, s_frag, f_frag, rot, anchor,
                   f_field, x, nevals, score, opt, outfile, fs>>

\* Fragment.__init__, lines 61-73
FragConnect ==
    /\ pc = "connect"
    /\ frag' = IF Cardinality(ConnectIdx(frag[cur])) # 1 THEN frag
               ELSE [frag EXCEPT ![cur] = ExtractConnect(frag[cur])]
    /\ Step(IF Cardinality(ConnectIdx(frag[cur])) # 1 THEN "AssertionError" ELSE "",
            "check", "connect")
    /\ UNCHANGED <<botSpecs, entries, defInp, force_field, evals, file, dist, out_t, file_t, cur, s_frag, f_frag, rot, anchor,
                   f_field, x, nevals, score, opt, outfile, fs>>

\* Fragment.__init__, lines 76-81
FragCheck ==
    /\ pc = "check"
    /\ Step(IF Len(frag[cur].coord) = 0 THEN "AssertionError" ELSE "", "orient", "check")
    /\ UNCHANGED <<botSpecs, entries, defInp, force_field, evals, file, dist, out_t, file_t, frag, cur, s_frag, f_frag, rot, anchor,
                   f_field, x, nevals, score, opt, outfile, fs>>

FragOrientAs(o) ==
    /\ o.exact
    /\ frag' = [frag EXCEPT ![cur] = o.fr]
    /\ fs' = IF o.rotated THEN fs \cup {"rotaft.xyz"} ELSE fs
    /\ Step(o.err, "hull", "orient")

\* Fragment.__init__, line 84: orient_frag
FragOrient ==
    /\ pc = "orient"
    /\ MeanExact(frag[cur].coord)
    /\ FragOrientAs(orient_frag(frag[cur]))
    /\ UNCHANGED <<botSpecs, entries, defInp, force_field, evals, file, dist, out_t, file_t, cur, s_frag, f_frag, rot, anchor,
                   f_field, x, nevals, score, opt, outfile>>

FragHullAs(h) ==
    /\ frag' = IF h.err # "" THEN frag
               ELSE [frag EXCEPT ![cur].hull = h.hull, ![cur].hull_ats = h.hull_ats]
    /\ cur' = IF h.err = "" /\ cur = 1 THEN 2 ELSE cur
    /\ Step(h.err, IF cur = 1 THEN "read" ELSE "roles", "hull")

\* Fragment.__init__, line 88: build_hull; then the next constructor, or
\* line 606
FragHull ==
    /\ pc = "hull"
    /\ FragHullAs(build_hull(frag[cur]))
    /\ UNCHANGED <<botSpecs, entries, defInp, force_field, evals, file, dist, out_t, file_t, s_frag, f_frag, rot, anchor,
                   f_field, x, nevals, score, opt, outfile, fs>>

AssignRolesAs(r) == s_frag' = r[1] /\ f_frag' = r[2]

\* add_ligand, lines 606-609
AssignRoles ==
    /\ pc = "roles"
    /\ AssignRolesAs(assign_roles(FragLen(frag[1]), FragLen(frag[2])))
    /\ Step("", "align", "roles")
    /\ UNCHANGED <<botSpecs, entries, defInp, force_field, evals, file, dist, out_t, file_t, frag, cur, rot, anchor,
                   f_field, x, nevals, score, opt, outfile, fs>>

AlignAs(a) ==
    /\ rot' = IF a.rot_is_self THEN f_frag ELSE s_frag
    /\ anchor' = IF a.rot_is_self THEN s_frag ELSE f_frag
    /\ frag' = [k \in 1..2 |->
                   IF k = (IF a.rot_is_self THEN f_frag ELSE s_frag) THEN a.rot
                                                                     ELSE a.anchor]

\* add_ligand, line 610: f_frag.align_frags(s_frag, dist)
Align ==
    /\ pc = "align"
    /\ AlignAs(align_frags(frag[f_frag], frag[s_frag], dist))
    /\ Step("", "ffield", "align")
    /\ UNCHANGED <<botSpecs, entries, defInp, force_field, evals, file, dist, out_t, file_t, cur, s_frag, f_frag,
                   f_field, x, nevals, score, opt, outfile, fs>>

MakeForceFieldAs(ff) ==
    /\ f_field' = IF ff.err # "" THEN f_field
                  ELSE [name |-> ff.name, at_dict |-> ff.at_dict]
    /\ Step(ff.err, "minimize", "ffield")

\* add_ligand, line 613: ForceField('MMFF94')
MakeForceField ==
    /\ pc = "ffield"
    /\ MakeForceFieldAs(ForceField(force_field))
    /\ UNCHANGED <<botSpecs, entries, defInp, force_field, evals, file, dist, out_t, file_t, frag, cur, s_frag, f_frag, rot, anchor,
                   x, nevals, score, opt, outfile, fs>>

EvaluateAs(xv, r, step) ==
    /\ r.exact
    /\ frag' = IF r.err # "" THEN frag ELSE [frag EXCEPT ![s_frag] = r.s_frag]
    /\ x' = IF r.err # "" THEN x ELSE xv
    /\ score' = IF r.err # "" THEN score ELSE r.score
    /\ evals' = IF r.err # "" THEN evals
                ELSE evals \cup {[x |-> xv, score |-> r.score]}
    /\ Step(r.err, "iterate", step)

\* One call of score_rotation(xv, s_frag, f_frag, f_field) by the minimizer.
\* A ValueError of rotate_frag passes through minimize and the
\* 'except RuntimeError' of lines 617-625.
Evaluate(xv, step) ==
    /\ EvaluateAs(xv, score_rotation(xv, frag[s_frag], frag[f_frag]), step)
    /\ nevals' = nevals + 1
    /\ UNCHANGED <<botSpecs, entries, defInp, force_field, file, dist, out_t, file_t, cur, s_frag, f_frag, rot, anchor,
                   f_field, opt, outfile, fs>>

\* minimize(score_rotation, [0,0,0], ...), line 618: the first evaluation is
\* at the start vector
MinimizeStart ==
    /\ pc = "minimize"
    /\ Evaluate(<<0, 0, 0>>, "minimize")

\* The minimizer tries another vector
MinimizeStep ==
    /\ pc = "iterate"
    /\ nevals <= MaxEvals
    /\ \E xv \in XDomain : Evaluate(xv, "evaluate")

\* The minimizer returns its last vector and its convergence flag
MinimizeReturn ==
    /\ pc = "iterate"
    /\ \E ok \in BOOLEAN : opt' = [x |-> x, success |-> ok]
    /\ Step("", "checkopt", "return")
    /\ UNCHANGED <<botSpecs, entries, defInp, force_field, evals, file, dist, out_t, file_t, frag, cur, s_frag, f_frag, rot, anchor,
                   f_field, x, nevals, score, outfile, fs>>

\* Variant of CheckSuccess: opt.success is not looked at
CheckSuccessIgnored ==
    /\ pc = "checkopt"
    /\ Step("", "rotate", "checkopt")
    /\ UNCHANGED <<botSpecs, entries, defInp, force_field, evals, file, dist, out_t, file_t, frag, cur, s_frag, f_frag, rot, anchor,
                   f_field, x, nevals, score, opt, outfile, fs>>

\* lines 620-625
CheckSuccess ==
    /\ pc = "checkopt"
    /\ Step(IF ~opt.success THEN "RuntimeError" ELSE "", "rotate", "checkopt")
    /\ UNCHANGED <<botSpecs, entries, defInp, force_field, evals, file, dist, out_t, file_t, frag, cur, s_frag, f_frag, rot, anchor,
                   f_field, x, nevals, score, opt, outfile, fs>>

RotateBestAs(rm) ==
    /\ RotExactOn(rm, frag[s_frag].coord \o <<frag[s_frag].connect>>)
    /\ frag' = IF rm.err # "" THEN frag
               ELSE [frag EXCEPT ![s_frag] = rotate(frag[s_frag], rm)]
    /\ Step(rm.err, "open", "rotate")

\* line 628: s_frag.rotate(expit(opt.x))
RotateBest ==
    /\ pc = "rotate"
    /\ RotateBestAs(RotMat(expit(opt.x)))
    /\ UNCHANGED <<botSpecs, entries, defInp, force_field, evals, file, dist, out_t, file_t, cur, s_frag, f_frag, rot, anchor,
                   f_field, x, nevals, score, opt, outfile, fs>>

\* lines 632-641: what is written when the output file is opened
Header(out_type, n) ==
    IF out_type = "xyz" THEN <<[k |-> "count", n |-> n], CtlLine("")>>
                        ELSE <<CtlLine("$coord")>>

\* lines 631-646: the output file is opened and its header written
OpenOutput ==
    /\ pc = "open"
    /\ outfile' = IF out_t \in {"xyz", "Turbomole"}
                      THEN Header(out_t, Len(frag[s_frag].coord) + Len(frag[f_frag].coord))
                      ELSE outfile
    /\ fs' = IF out_t \in {"xyz", "Turbomole"} THEN fs \cup {"out"} ELSE fs
    /\ Step(IF out_t \in {"xyz", "Turbomole"} THEN "" ELSE "TypeError", "write", "open")
    /\ UNCHANGED <<botSpecs, entries, defInp, force_field, evals, file, dist, out_t, file_t, frag, cur, s_frag, f_frag, rot, anchor,
                   f_field, x, nevals, score, opt>>

\* Variant of WriteOutput: f_frag is written before s_frag
WriteOutputAnchorFirst ==
    /\ pc = "write"
    /\ outfile' = outfile \o write(frag[f_frag], out_t) \o write(frag[s_frag], out_t)
                          \o (IF out_t = "Turbomole" THEN <<CtlLine("$end")>> ELSE <<>>)
    /\ Step("", "done", "write")
    /\ UNCHANGED <<botSpecs, entries, defInp, force_field, evals, file, dist, out_t, file_t, frag, cur, s_frag, f_frag, rot, anchor,
                   f_field, x, nevals, score, opt, fs>>

\* lines 648-655
WriteOutput ==
    /\ pc = "write"
    /\ outfile' = outfile \o write(frag[s_frag], out_t) \o write(frag[f_frag], out_t)
                          \o (IF out_t = "Turbomole" THEN <<CtlLine("$end")>> ELSE <<>>)
    /\ Step("", "done", "write")
    /\ UNCHANGED <<botSpecs, entries, defInp, force_field, evals, file, dist, out_t, file_t, frag, cur, s_frag, f_frag, rot, anchor,
                   f_field, x, nevals, score, opt, fs>>

Next ==
    \/ DetermineTypes
    \/ FragRead
    \/ FragConnect
    \/ FragCheck
    \/ FragOrient
    \/ FragHull
    \/ AssignRoles
    \/ Align
    \/ MakeForceField
    \/ MinimizeStart
    \/ MinimizeStep
    \/ MinimizeReturn
    \/ CheckSuccess
    \/ RotateBest
    \/ OpenOutput
    \/ WriteOutput

Spec == Init /\ [][Next]_vars

-----------------------------------------------------------------------------
(* Calls of the methods of one Fragment and of one ForceField, in any order *)

\* Fragment(file_name, f_type) for an input that the constructor accepts
FragmentHull(o) == [o EXCEPT !.hull = build_hull(o).hull,
                             !.hull_ats = build_hull(o).hull_ats]

Fragment(inp) ==
    FragmentHull(orient_frag(ExtractConnect(
        FragAfterRead(inp.name, read(FileLines(inp), Layout(inp)).recs))).fr)

CallGeoms == {GTet, GOct, GPyr, GTetIn}

\* Names a ForceField is asked for
FFNames == {"MMFF94", "UFF", ""}

\* Labels of a pair: in the table, and not in it
CallLabels == {"H", "C", "Fe", "Zz", "Qq"}

\* Squared distances of a pair
CallDist2 == {37, 149}

\* Parameter vectors: the twelve E-R vectors of the rotations by 120 degrees
\* about the diagonals and by 90 degrees about the axes, no rotation, a
\* vector of length 1 and one longer than 1
Signs == {-1, 1}

CallRots ==
    {RatRots(<<i, j, k>>, 2) : i \in Signs, j \in Signs, k \in Signs}
    \cup {Rots(<<i, 0, 0>>, 1, 1, 2) : i \in Signs}
    \cup {Rots(<<0, i, 0>>, 1, 1, 2) : i \in Signs}
    \cup {Rots(<<0, 0, i>>, 1, 1, 2) : i \in Signs}
    \cup {RatRots(Zero3, 1), RatRots(<<1, 0, 0>>, 1), RatRots(<<1, 1, 0>>, 1)}

\* -rots
NegRots(r) == [r EXCEPT !.n = VNeg(r.n)]

\* dot(rots, rots) < 1
ShorterThanOne(r) == Dot(r.n, r.n) * r.sn < r.d * r.d * r.sd

\* Tags of the file a fragment is read from and written to
CallTags == {"xyz", "Turbomole"}

CallsInit ==
    /\ \E g \in CallGeoms, t \in CallTags :
          /\ file = [k \in 1..2 |-> Input(g, t, "mol.dat")]
          /\ frag = [k \in 1..2 |-> Fragment(Input(g, t, "mol.dat"))]
          /\ file_t = [k \in 1..2 |-> t]
          /\ out_t = t
    /\ dist = 1
    /\ cur = 1
    /\ s_frag = 0 /\ f_frag = 0 /\ rot = 0 /\ anchor = 0
    /\ f_field = Unset
    /\ x = Unset /\ nevals = 0 /\ score = Unset /\ opt = Unset
    /\ outfile = Unset
    /\ fs = {}
    /\ pc = "calls"
    /\ err = ""
    /\ trace = <<>>
    /\ force_field \in FFNames
    /\ evals = {}
    /\ botSpecs = <<>> /\ entries = <<>> /\ defInp = <<>>

\* ForceField(force_field), once
CallForceField ==
    /\ pc = "calls"
    /\ f_field = Unset
    /\ f_field' = IF ForceField(force_field).err # "" THEN f_field
                  ELSE [name |-> ForceField(force_field).name,
                        at_dict |-> ForceField(force_field).at_dict]
    /\ Step(ForceField(force_field).err, "calls", "ffield")
    /\ UNCHANGED <<botSpecs, entries, defInp, force_field, evals, file, dist, out_t, file_t, frag, cur, s_frag,
                   f_frag, rot, anchor, x, nevals, score, opt, outfile, fs>>

\* f_field.sep(label), f_field.depth(label, sep) and f_field.inter(dist, label)
CallInter ==
    /\ pc = "calls"
    /\ f_field # Unset
    /\ \E label \in CallLabels \X CallLabels, d2 \in CallDist2 :
          score' = [label |-> label, dist2 |-> d2,
                    sep |-> sep_MMFF94(f_field, label),
                    depth |-> depth_MMFF94(f_field, label, sep_MMFF94(f_field, label)),
                    inter |-> inter_MMFF94(f_field, d2, label)]
    /\ UNCHANGED <<botSpecs, entries, defInp, force_field, evals, file, dist, out_t, file_t, frag, cur, s_frag,
                   f_frag, rot, anchor, f_field, x, nevals, opt, outfile, fs,
                   pc, err, trace>>

CallRotateAs(rm, p) ==
    /\ RotExactOn(rm, frag[1].coord \o <<frag[1].connect>>)
    /\ frag' = IF rm.err # "" THEN frag ELSE [frag EXCEPT ![1] = rotate(frag[1], rm)]
    /\ pc' = IF rm.err # "" THEN "failed" ELSE p
    /\ err' = rm.err

\* frag.rotate(p) on the first of two equal fragments
CallRotate ==
    /\ pc = "calls"
    /\ \E p \in CallRots : CallRotateAs(RotMat(p), "rotated") /\ x' = p
    /\ UNCHANGED <<botSpecs, entries, defInp, force_field, evals, file, dist, out_t, file_t, cur, s_frag,
                   f_frag, rot, anchor, f_field, nevals, score, opt, outfile, fs, trace>>

\* frag.rotate(-p) after frag.rotate(p)
CallRotateBack ==
    /\ pc = "rotated"
    /\ CallRotateAs(RotMat(NegRots(x)), "calls")
    /\ UNCHANGED <<botSpecs, entries, defInp, force_field, evals, file, dist, out_t, file_t, cur, s_frag,
                   f_frag, rot, anchor, f_field, x, nevals, score, opt, outfile, fs,
                   trace>>

\* Fragment.write(outfile, out_t) with the default header=True, lines
\* 183-226: the header of the format, the atom lines and, in a Turbomole
\* file, '$end'
write_file(fr, out_type) ==
    Header(out_type, Len(fr.coord)) \o write(fr, out_type)
        \o (IF out_type = "Turbomole" THEN <<CtlLine("$end")>> ELSE <<>>)

\* frag.write(outfile, out_t) on the second of the two fragments, once
CallWrite ==
    /\ pc = "calls"
    /\ outfile = Unset
    /\ outfile' = write_file(frag[2], out_t)
    /\ UNCHANGED <<botSpecs, entries, defInp, force_field, evals, file, dist, out_t, file_t, frag, cur, s_frag,
                   f_frag, rot, anchor, f_field, x, nevals, score, opt, fs,
                   pc, err, trace>>

CallsNext ==
    \/ CallForceField
    \/ CallInter
    \/ CallRotate
    \/ CallRotateBack
    \/ CallWrite

SpecCalls == CallsInit /\ [][CallsNext]_vars

-----------------------------------------------------------------------------
(* src/SetUp/autoDefine/commandWriters.py: assignFrags.  An option line is *)
(* its key and the whitespace-separated 'name=value' tokens after it.      *)

Token(k, v) == [key |-> k, val |-> v]

OptLine(k, tokens) == [key |-> k, tokens |-> tokens]

\* The value getLine returns: None, or the text after the key
None == [given |-> FALSE, tokens |-> <<>>]

Target(tokens) == [given |-> TRUE, tokens |-> tokens]

\* getLine, lines 54-72, without continuation lines
RECURSIVE GetLineFrom(_, _, _, _)
GetLineFrom(opts, key, i, target) ==
    LET hit == opts[i].key = key
        j == IF hit THEN i + 1 ELSE i
        t == IF hit THEN Target(opts[i].tokens) ELSE target
    IN  IF opts[j].key = "$end" THEN t
        ELSE IF opts[j].key # key THEN GetLineFrom(opts, key, j + 1, t)
        ELSE GetLineFrom(opts, key, j, t)

\* getLine, lines 43-72
getLine(opts, key) == IF opts = <<>> THEN None ELSE GetLineFrom(opts, key, 1, None)

\* 'name=' in frag
Has(frg, name) == \E i \in 1..Len(frg.tokens) : frg.tokens[i].key = name

\* frag.split('name=')[1].split()[0]
ValueOf(frg, name) ==
    frg.tokens[CHOOSE i \in 1..Len(frg.tokens) :
                  /\ frg.tokens[i].key = name
                  /\ \A j \in 1..(i - 1) : frg.tokens[j].key # name].val

\* value.split(',') and at.split('-') on the atom lists used
Ranges(v) ==
    CASE v = "1-4,6" -> << <<"1", "4">>, <<"6">> >>
      [] v = "5" -> << <<"5">> >>
      [] v = "1-2-3" -> << <<"1", "2", "3">> >>
      [] OTHER -> << <<v>> >>

\* What a part of assignFrags has written, and the exception it ended with
Wrote(out, e) == [out |-> out, err |-> e]

\* Two parts in sequence: the second is not reached after an exception
Then(r, s) == IF r.err # "" THEN r ELSE Wrote(r.out \o s.out, s.err)

\* lines 252-262 for one entry of the atom list of fragment n
RangeLines(rnge, n) ==
    IF Len(rnge) = 2 THEN Wrote(<<"x", rnge[1], rnge[2], n>>, "")
    ELSE IF Len(rnge) = 1 THEN Wrote(<<"x", rnge[1], rnge[1], n>>, "")
    ELSE Wrote(<<"x">>, "SystemExit")

RECURSIVE AtomListFrom(_, _, _)
AtomListFrom(ats, i, n) ==
    IF i > Len(ats) THEN Wrote(<<>>, "")
    ELSE Then(RangeLines(ats[i], n), AtomListFrom(ats, i + 1, n))

\* lines 248-262, 263-277, 278-292
FragSection(frg, name, n) ==
    IF Has(frg, name) THEN AtomListFrom(Ranges(ValueOf(frg, name)), 1, n)
    ELSE Wrote(<<>>, "")

\* lines 299-300: 'chrg' in frag
ChaLine(frg) ==
    IF \E i \in 1..Len(frg.tokens) : frg.tokens[i].key \in {"chrg1", "chrg2", "chrg3"}
        THEN Wrote(<<"cha">>, "") ELSE Wrote(<<>>, "")

\* lines 301-304 and 305-308
ChrgLine(frg, name) ==
    IF Has(frg, name) THEN Wrote(<<ValueOf(frg, name)>>, "") ELSE Wrote(<<>>, "")

\* lines 309-312: chrg3 is assigned from the local name chrg2, which is
\* bound only when line 306 has run
Chrg3Line(frg) ==
    IF ~Has(frg, "chrg3") THEN Wrote(<<>>, "")
    ELSE IF Has(frg, "chrg2") THEN Wrote(<<ValueOf(frg, "chrg2")>>, "")
    ELSE Wrote(<<>>, "UnboundLocalError")

\* lines 246-314 for the line frg
WriteFrags(frg) ==
    Then(Wrote(<<"frag", "on", "q", "q">>, ""),
    Then(FragSection(frg, "frag1", "1"),
    Then(FragSection(frg, "frag2", "2"),
    Then(FragSection(frg, "frag3", "3"),
    Then(ChaLine(frg),
    Then(ChrgLine(frg, "chrg1"),
    Then(ChrgLine(frg, "chrg2"),
    Then(Chrg3Line(frg), Wrote(<<"", "", "">>, "")))))))))

\* lines 240-244: the line of the directory's options file comes first
FragLineOf(bot, ent) ==
    IF getLine(bot, "$frag").given THEN getLine(bot, "$frag") ELSE getLine(ent, "$frag")

\* assignFrags, lines 237-314
assignFrags(bot, ent) ==
    IF FragLineOf(bot, ent).given THEN WriteFrags(FragLineOf(bot, ent))
    ELSE Wrote(<<>>, "")

\* Charges given in an options file
ChrgVals == {"0", "1", "-2"}

Absent == "absent"

\* The tokens of the options that are present, in the order of KeyFormat
RECURSIVE TokensOf(_, _, _)
TokensOf(names, vals, i) ==
    IF i > Len(names) THEN <<>>
    ELSE (IF vals[i] = Absent THEN <<>> ELSE <<Token(names[i], vals[i])>>)
         \o TokensOf(names, vals, i + 1)

ChrgTokens ==
    {TokensOf(<<"chrg1", "chrg2", "chrg3">>, v, 1) :
        v \in [1..3 -> ChrgVals \cup {Absent}]}

FragTokens ==
    {<<>>, <<Token("frag1", "1-4,6"), Token("frag2", "5")>>,
     <<Token("frag1", "1-4,6"), Token("frag2", "5"), Token("frag3", "1-2-3")>>}

EndLine == OptLine("$end", <<>>)

Options ==
    {<<EndLine>>}
    \cup {<<OptLine("$title", <<>>), OptLine("$frag", f \o c), EndLine>> :
              f \in FragTokens, c \in ChrgTokens}

BotOptions ==
    {<<>>, <<OptLine("$frag", <<Token("frag1", "5"), Token("chrg1", "1")>>), EndLine>>}

FragsInit ==
    /\ entries \in Options
    /\ botSpecs \in BotOptions
    /\ defInp = <<>>
    /\ file = [k \in 1..2 |-> Input(GEmpty, "", "coord")]
    /\ dist = 1
    /\ out_t = "xyz"
    /\ file_t = [k \in 1..2 |-> ""]
    /\ frag = [k \in 1..2 |-> Unset]
    /\ cur = 1
    /\ s_frag = 0 /\ f_frag = 0 /\ rot = 0 /\ anchor = 0
    /\ f_field = Unset
    /\ x = Unset /\ nevals = 0 /\ score = Unset /\ opt = Unset
    /\ outfile = Unset
    /\ fs = {}
    /\ pc = "assignFrags"
    /\ err = ""
    /\ trace = <<>>
    /\ force_field = "MMFF94"
    /\ evals = {}

AssignFragsAs(r) ==
    /\ defInp' = defInp \o r.out
    /\ Step(r.err, "assigned", "assignFrags")

\* cw.assignFrags(botSpecs, entries, defInp), autoDefine.py line 227
AssignFrags ==
    /\ pc = "assignFrags"
    /\ AssignFragsAs(assignFrags(botSpecs, entries))
    /\ UNCHANGED <<botSpecs, entries, force_field, evals, file, dist, out_t, file_t,
                   frag, cur, s_frag, f_frag, rot, anchor, f_field, x, nevals, score,
                   opt, outfile, fs>>

FragsNext == AssignFrags

SpecFrags == FragsInit /\ [][FragsNext]_vars

-----------------------------------------------------------------------------
(* Vocabulary of the properties *)

\* How often a step has been taken; the k-th constructor has taken it
Count(step) == Cardinality({i \in 1..Len(trace) : trace[i] = step})

Did(step, k) == Count(step) >= k

LastStep == IF Len(trace) = 0 THEN "" ELSE trace[Len(trace)]

\* Connector-labelled and other atoms of the k-th input file
XCount(k) ==
    Cardinality({i \in 1..Len(file[k].atoms) : Capitalize(file[k].atoms[i].label) = "X"})

AtomCount(k) == Len(file[k].atoms) - XCount(k)

Supported(k) == file_t[k] \in {"Turbomole", "xyz"}

\* The k-th constructor has returned a Fragment
Built(k) == Did("hull", k) /\ ~(pc = "failed" /\ cur = k /\ LastStep = "hull")

-----------------------------------------------------------------------------
(* Fragment construction *)

\* C1: when the number of connector-labelled atoms of an input is not
\* exactly 1, the constructor fails at its connector assertion with an
\* AssertionError, before orient_frag or build_hull has run on the fragment.
C1_ConnectorCount ==
    \A k \in 1..2 :
        (Did("connect", k) /\ XCount(k) # 1)
            => /\ pc = "failed" /\ err = "AssertionError" /\ LastStep = "connect"
               /\ ~Did("orient", k) /\ ~Did("hull", k)
               /\ frag[k].hull = Unset

\* A constructor has failed on an input with two connectors
C1_Witness ==
    pc = "failed" /\ LastStep = "connect" /\ XCount(cur) = 2

\* C2: every input with exactly one connector and at least one other atom
\* (fewer than four atoms, coplanar atoms and a connector near the centroid
\* included) gets through the constructor and has a non-empty hull.
C2_WellFormedConstructs ==
    \A k \in 1..2 :
        (Did("connect", k) /\ XCount(k) = 1 /\ AtomCount(k) >= 1)
            => /\ ~(pc = "failed" /\ cur = k
                    /\ LastStep \in {"connect", "check", "orient", "hull"})
               /\ (Did("hull", k) => Len(frag[k].hull) > 0)

\* A constructor has failed in build_hull on an input of one connector and
\* one atom
C2_Witness ==
    /\ pc = "failed" /\ LastStep = "hull" /\ err = "QhullError"
    /\ XCount(cur) = 1 /\ AtomCount(cur) = 1

\* C3: an input without any non-connector atom (no atom at all, or the
\* connector only) is rejected with an AssertionError by the constructor,
\* under either supported format.
C3_NoAtomsRejected ==
    \A k \in 1..2 :
        (/\ AtomCount(k) = 0 /\ Supported(k) /\ Did("read", k)
         /\ ~(cur = k /\ pc \in {"connect", "check"}))
            => /\ pc = "failed" /\ err = "AssertionError" /\ cur = k
               /\ LastStep \in {"connect", "check"}
               /\ frag[k].hull = Unset

\* A connector-only Turbomole input has been rejected at the atom assertion
C3_Witness ==
    /\ pc = "failed" /\ LastStep = "check" /\ err = "AssertionError"
    /\ file_t[cur] = "Turbomole" /\ Len(file[cur].atoms) = 1

\* C4: the hull of a fragment stays consistent with its coordinates: after
\* rotate and shift_origin every hull point is still one of the atoms.
C4_HullFollowsCoord ==
    \A k \in 1..2 : Built(k) => Range(frag[k].hull) \subseteq Range(frag[k].coord)

\* align_frags has moved the atoms of a fragment and left its hull behind
C4_Witness ==
    /\ LastStep = "align"
    /\ \E k \in 1..2 : Range(frag[k].hull) \cap Range(frag[k].coord) = {}

-----------------------------------------------------------------------------
(* Objective *)

\* The summed terms as a multiset
TermBag(s) == [t \in Range(s) |-> Cardinality({i \in 1..Len(s) : s[i] = t})]

\* The terms calc_dists gives for the hull rotate_frag returned
RotatedTerms(s, f) == calc_dists([s EXCEPT !.hull = s.guess_hull], f)

\* C5: the score the objective returns is the sum over the retained pairs
\* of the ROTATED hull of s_frag and the hull of f_frag.
C5_ObjectiveFromRotatedHull ==
    pc = "iterate"
        => TermBag(score) = TermBag(RotatedTerms(frag[s_frag], frag[f_frag]))

\* The objective has returned the terms of the unrotated hull although the
\* rotated hull differs from it
C5_Witness ==
    /\ pc = "iterate"
    /\ score = calc_dists(frag[s_frag], frag[f_frag])
    /\ Range(frag[s_frag].guess_hull) # Range(frag[s_frag].hull)

-----------------------------------------------------------------------------
(* Alignment and roles *)

\* C6: when the run ends successfully the two connectors are the target
\* distance apart (compared as squared distances).
C6_ConnectorDistance ==
    pc = "done" => Dist2(frag[1].connect, frag[2].connect) = dist * dist

\* A run has ended successfully in which the final rotation has moved the
\* connector of the fragment that align_frags placed off the origin
C6_Witness ==
    /\ pc = "done" /\ rot = s_frag
    /\ frag[rot].connect # <<0, 0, dist>>

\* The positions align_frags has left and add_ligand has not rotated yet
AfterAlign == {"ffield", "minimize", "iterate", "checkopt", "rotate"}

\* C7, as the specification states it: after align_frags the anchor's
\* connector is at the origin and rot's connector at (0, 0, -dist).
C7_RotBelowOrigin ==
    pc \in AfterAlign
        => /\ frag[anchor].connect = <<0, 0, 0>>
           /\ frag[rot].connect = <<0, 0, -dist>>

\* C7, amended: after align_frags the anchor's connector is at the origin
\* and rot's connector at (0, 0, +dist).
C7_RotAboveOrigin ==
    pc \in AfterAlign
        => /\ frag[anchor].connect = <<0, 0, 0>>
           /\ frag[rot].connect = <<0, 0, dist>>

\* align_frags has just returned, with rot's connector above the origin
C7_Witness ==
    pc = "ffield" /\ LastStep = "align" /\ frag[rot].connect[3] > 0

\* C8: in add_ligand the fragment with strictly fewer hull points becomes
\* s_frag, the first one on a tie; in align_frags(self, other_frag) the
\* fragment with strictly fewer hull points becomes rot, self on a tie.
C8_Roles ==
    /\ s_frag # 0
        => /\ s_frag = IF FragLen(frag[2]) < FragLen(frag[1]) THEN 2 ELSE 1
           /\ f_frag = 3 - s_frag
    /\ rot # 0
        => /\ rot = IF FragLen(frag[s_frag]) < FragLen(frag[f_frag]) THEN s_frag
                                                                       ELSE f_frag
           /\ anchor = 3 - rot

\* Both decisions have been made on a tie
C8_Witness ==
    /\ rot # 0 /\ FragLen(frag[1]) = FragLen(frag[2])
    /\ s_frag = 1 /\ rot = 2

\* The pairs of hull points further apart than the cutoff, and the number
\* of them up to a pair in the order of the loops of calc_dists
FarPairs(s, f) ==
    {p \in (1..FragLen(s)) \X (1..FragLen(f)) :
        Dist2(s.hull[p[1]], f.hull[p[2]]) > (Cut * Scale) * (Cut * Scale)}

RankIn(p, Q) ==
    Cardinality({q \in Q : q[1] < p[1] \/ (q[1] = p[1] /\ q[2] <= p[2])})

PairsReturned(r, s, f) ==
    /\ Len(r) = Cardinality(FarPairs(s, f))
    /\ \A p \in FarPairs(s, f) :
          r[RankIn(p, FarPairs(s, f))]
              = [dist2 |-> Dist2(s.hull[p[1]], f.hull[p[2]]),
                 labels |-> <<s.hull_ats[p[1]], f.hull_ats[p[2]]>>]

\* C9: calc_dists returns exactly the pairs whose separation is strictly
\* greater than the cutoff, each with the labels of its two points.
C9_FilteredPairs ==
    pc = "iterate" => PairsReturned(score, frag[s_frag], frag[f_frag])

\* calc_dists has kept some pairs and dropped others
C9_Witness ==
    /\ pc = "iterate"
    /\ Len(score) > 0
    /\ Len(score) < FragLen(frag[s_frag]) * FragLen(frag[f_frag])

-----------------------------------------------------------------------------
(* Optimization *)

\* C10: add_ligand raises its RuntimeError exactly when the minimizer's
\* success flag is false; then no rotation is applied and nothing is written.
C10_OptimizationFailure ==
    /\ [](err = "RuntimeError"
            => /\ LastStep = "checkopt" /\ ~opt.success
               /\ ~Did("rotate", 1) /\ outfile = Unset /\ "out" \notin fs)
    /\ [][pc = "checkopt"
            => IF opt.success
                   THEN pc' = "rotate" /\ err' = ""
                   ELSE /\ pc' = "failed" /\ err' = "RuntimeError"
                        /\ frag' = frag /\ outfile' = outfile /\ fs' = fs]_vars

\* The RuntimeError has been raised after the minimizer tried several vectors
C10_Witness ==
    pc = "failed" /\ err = "RuntimeError" /\ nevals > 1

-----------------------------------------------------------------------------
(* Final rotation and output *)

\* The coordinates and the connector of fr turned by the matrix rm
TurnedBy(fr, rm) ==
    [coord |-> RotPoints(rm, fr.coord),
     connect |-> VDiv(MatVec(rm.m, fr.connect), rm.den)]

RotatedAs(old, new, rm) ==
    /\ new.coord = TurnedBy(old, rm).coord
    /\ new.connect = TurnedBy(old, rm).connect

\* C11: when the minimizer has converged, add_ligand rotates the atoms and
\* the connector of s_frag by the rotation of expit(opt.x), once, and
\* leaves f_frag as it was.
C11_RotationApplied ==
    /\ [](Count("rotate") <= 1)
    /\ [][(pc = "checkopt" /\ opt.success) => pc' = "rotate"]_vars
    /\ [][pc = "rotate"
            => /\ pc' = "open"
               /\ RotatedAs(frag[s_frag], frag'[s_frag], RotMat(expit(opt.x)))
               /\ frag'[f_frag] = frag[f_frag]]_vars

\* The rotation applied was not the identity and has moved the connector
C11_Witness ==
    /\ pc = "open" /\ LastStep = "rotate"
    /\ opt.x # <<0, 0, 0>>
    /\ frag[s_frag].connect \notin {<<0, 0, 0>>, <<0, 0, dist>>}

\* The atom lines of a file
AtomRecords(out) == SelectSeq(out, LAMBDA l : l.k = "atom")

\* The atom lines are those of fragment a followed by those of fragment b
RecordsOf(recs, a, b) ==
    /\ Len(recs) = Len(a.coord) + Len(b.coord)
    /\ \A i \in 1..Len(a.coord) :
          recs[i].pos = a.coord[i] /\ Capitalize(recs[i].label) = a.at_labels[i]
    /\ \A j \in 1..Len(b.coord) :
          /\ recs[Len(a.coord) + j].pos = b.coord[j]
          /\ Capitalize(recs[Len(a.coord) + j].label) = b.at_labels[j]

\* C12: the output of a successful run holds one atom line per atom of
\* s_frag followed by one per atom of f_frag and, besides the header and
\* the end line of its format, nothing else; the count in the xyz header is
\* the number of atoms of both fragments; no line carries the connector label.
C12_CombinedOutput ==
    pc = "done"
        => /\ RecordsOf(AtomRecords(outfile), frag[s_frag], frag[f_frag])
           /\ Len(outfile) = Len(AtomRecords(outfile)) + 2
           /\ out_t = "xyz"
                => outfile[1] = [k |-> "count",
                                 n |-> Len(frag[1].coord) + Len(frag[2].coord)]
           /\ \A i \in 1..Len(outfile) :
                 outfile[i].k = "atom" => outfile[i].label \notin {"X", "x"}

\* An xyz file has been written for two fragments of different size
C12_Witness ==
    /\ pc = "done" /\ out_t = "xyz"
    /\ Len(frag[s_frag].coord) < Len(frag[f_frag].coord)

-----------------------------------------------------------------------------
(* Force field lookups and rotations, under SpecCalls *)

\* The label, or 'Fe' for a label that is not in the table
Known(l) == IF l \in DOMAIN init_MMFF94 THEN l ELSE "Fe"

KnownPair(label) == <<Known(label[1]), Known(label[2])>>

\* C13: for labels that are not in the table sep, depth and inter do not
\* fail and return what they return with 'Fe' in place of each such label,
\* in either place of the pair and with both labels unknown, equal or not.
C13_UnknownLabelIsIron ==
    score # Unset
        => /\ score.sep = sep_MMFF94(f_field, KnownPair(score.label))
           /\ score.depth = depth_MMFF94(f_field, KnownPair(score.label),
                                         sep_MMFF94(f_field, KnownPair(score.label)))
           /\ score.inter = inter_MMFF94(f_field, score.dist2, KnownPair(score.label))

\* The three methods have returned for a pair of two different labels that
\* are both missing from the table
C13_Witness ==
    /\ score # Unset
    /\ score.label = <<"Zz", "Qq">>
    /\ score.sep = SepValue(1800000, 1800000)

\* C14: for a parameter vector p shorter than 1, rotate(p) followed by
\* rotate(-p) gives back the coordinates and the connector the fragment had.
C14_RotateThereAndBack ==
    (pc = "calls" /\ x # Unset /\ ShorterThanOne(x))
        => /\ frag[1].coord = frag[2].coord
           /\ frag[1].connect = frag[2].connect

\* A fragment has been turned by 120 degrees and back
C14_Witness ==
    /\ pc = "calls" /\ x = RatRots(<<1, -1, 1>>, 2)
    /\ Len(frag[1].coord) = 5
    /\ frag[1].coord = frag[2].coord

-----------------------------------------------------------------------------
(* Orientation, determinism, order of the steps, under Spec *)

\* orient_frag applied to fr has not failed and has left fr as it was
OrientKeeps(fr, o) ==
    /\ o.err = ""
    /\ o.exact => (o.fr.coord = fr.coord /\ o.fr.connect = fr.connect)

\* C15: after orient_frag the connector, taken from the centroid of the
\* atoms (the origin), lies on the z axis, and a second orient_frag changes
\* neither the coordinates nor the connector.
C15_OrientIdempotent ==
    pc = "hull"
        => /\ frag[cur].connect[1] = 0 /\ frag[cur].connect[2] = 0
           /\ OrientKeeps(frag[cur], orient_frag(frag[cur]))

\* orient_frag has returned and the connector is off the z axis
C15_Witness ==
    /\ pc = "hull" /\ LastStep = "orient"
    /\ frag[cur].connect = <<1, 0, 1>>

\* The fragments but for the hull stored by the last call of the objective
ButGuessHull(fs2) == [k \in 1..2 |-> [fs2[k] EXCEPT !.guess_hull = Unset]]

\* C16: calls of score_rotation with the same vector return the same value,
\* whatever calls were made in between; the calls leave the state of the two
\* fragments that the value is computed from as it was.
C16_ObjectiveDeterministic ==
    /\ [](\A a \in evals : \A b \in evals : a.x = b.x => a.score = b.score)
    /\ [][(pc \in {"minimize", "iterate"} /\ pc' = "iterate")
            => ButGuessHull(frag') = ButGuessHull(frag)]_vars

\* The start vector has been evaluated again after another vector
C16_Witness ==
    /\ pc = "iterate" /\ nevals = 3
    /\ x = <<0, 0, 0>>
    /\ Cardinality({e.x : e \in evals}) = 2

\* The steps that enter ROLE_ASSIGNED, ALIGNED, OPTIMIZING, ROTATED and
\* SERIALIZED, in the order of add_ligand, and those of them taken so far
Stages == <<"roles", "align", "minimize", "rotate", "write">>

StagesTaken == SelectSeq(trace, LAMBDA t : t \in Range(Stages))

\* C17: a run passes LOADED (both constructors returned), ROLE_ASSIGNED,
\* ALIGNED, OPTIMIZING, ROTATED and SERIALIZED in this order, none skipped
\* and none entered twice (minimize is called at most once); no step is
\* taken after a failure, and a run that failed has written no output.
C17_StateOrder ==
    /\ [](/\ Len(StagesTaken) <= Len(Stages)
          /\ StagesTaken = SubSeq(Stages, 1, Len(StagesTaken))
          /\ Did("roles", 1) => (Built(1) /\ Built(2))
          /\ pc = "done" <=> Did("write", 1)
          /\ err # "" <=> pc = "failed"
          /\ pc = "failed" => (outfile = Unset /\ "out" \notin fs))
    /\ [][pc \notin {"failed", "done"}]_vars

\* A run has reached SERIALIZED after the minimizer tried several vectors
C17_Witness ==
    pc = "done" /\ nevals = 3 /\ StagesTaken = Stages

\* The k-th constructor has failed in self.read
FailedInRead(k) == pc = "failed" /\ LastStep = "read" /\ cur = k

\* C18: the constructor reads files under the tags 'Turbomole' and 'xyz'
\* and under no other: with any other tag it fails in read, and no attribute
\* of the fragment (coordinates, connector, hull) has been set.
C18_FormatTags ==
    \A k \in 1..2 :
        Did("read", k)
            => IF Supported(k)
                   THEN ~FailedInRead(k)
                   ELSE /\ FailedInRead(k) /\ err = "TypeError"
                        /\ frag[k] = Unset
                        /\ ~Did("connect", k)

\* The second constructor has failed on a tag that is not supported
C18_Witness ==
    FailedInRead(2) /\ file_t[2] = "pdb" /\ Built(1)

-----------------------------------------------------------------------------
(* Force field construction, under SpecCalls *)

\* C19: ForceField fails for every name but 'MMFF94'; for 'MMFF94' the
\* object holds the table of _init_MMFF94, and it still holds that table
\* after any calls of sep, depth and inter.
C19_ForceFieldNames ==
    Did("ffield", 1)
        => IF force_field = "MMFF94"
               THEN f_field = [name |-> "MMFF94", at_dict |-> init_MMFF94]
               ELSE pc = "failed" /\ err = "TypeError" /\ f_field = Unset

\* ForceField has failed for another name
C19_Witness ==
    pc = "failed" /\ LastStep = "ffield" /\ force_field = "UFF"

-----------------------------------------------------------------------------
(* Start of the minimization, under Spec *)

\* C20: the minimizer starts at the zero vector, which stands for no
\* rotation: the first call of the objective scores the hull of s_frag as
\* align_frags left it, and the rotation of the start vector leaves the
\* coordinates of a fragment as they are.
C20_StartIsNoRotation ==
    (pc = "iterate" /\ nevals = 1)
        => /\ x = <<0, 0, 0>>
           /\ score = calc_dists(frag[s_frag], frag[f_frag])
           /\ frag[s_frag].guess_hull = frag[s_frag].hull
           /\ TurnedBy(frag[s_frag], RotMat(expit(x))).coord = frag[s_frag].coord

\* The first call of the objective has returned; the hull it rotated by the
\* start vector is not the hull it started from
C20_Witness ==
    /\ pc = "iterate" /\ nevals = 1 /\ x = <<0, 0, 0>>
    /\ frag[s_frag].guess_hull # frag[s_frag].hull

-----------------------------------------------------------------------------
(* Effects of the objective on the fragments, under Spec *)

\* A step of the minimizer that calls score_rotation
ObjectiveStep == pc \in {"minimize", "iterate"} /\ trace' # trace /\ LastStep' # "return"

\* The steps of add_ligand itself that call no method of a Fragment
PlainSteps == {"determine", "roles", "ffield", "return", "checkopt", "open"}

-----------------------------------------------------------------------------
(* What a failed run leaves to its caller, under Spec *)

\* The exception add_ligand ends with.  'raise RuntimeError' (line 621)
\* raises an instance made without arguments and the bare 'raise' of line
\* 625 raises the same instance again; opt is a local name of add_ligand and
\* is gone with its frame.
Raised ==
    IF err = "RuntimeError" THEN [type |-> err, args |-> <<>>] ELSE [type |-> err]

\* C22: when the minimizer has not converged, the exception that reaches the
\* caller of add_ligand carries the minimizer's last parameter vector.
C22_BestRotationRetrievable ==
    (pc = "failed" /\ err = "RuntimeError") => opt.x \in Range(Raised.args)

\* The run has failed after the minimizer moved off the start vector, and
\* the exception carries nothing
C22_Witness ==
    /\ pc = "failed" /\ Raised = [type |-> "RuntimeError", args |-> <<>>]
    /\ ~opt.success /\ opt.x # <<0, 0, 0>>

-----------------------------------------------------------------------------
(* Labels of the hull, under Spec *)

\* The fragment whose constructor has just returned from build_hull
JustBuilt == IF pc = "read" THEN 1 ELSE cur

\* The labels of the atoms of fr that are at position p
LabelsAt(fr, p) == {fr.at_labels[j] : j \in {i \in 1..Len(fr.coord) : fr.coord[i] = p}}

\* C23: build_hull pairs every hull point with the label of an atom that is
\* at exactly that point, also when an atom earlier in the file has one
\* coordinate in common with the point.
C23_HullLabelsMatch ==
    (LastStep = "hull" /\ pc # "failed")
        => \A i \in 1..Len(frag[JustBuilt].hull) :
              frag[JustBuilt].hull_ats[i]
                  \in LabelsAt(frag[JustBuilt], frag[JustBuilt].hull[i])

\* build_hull has returned; a hull point carries the label of the first atom
\* of the file, which is elsewhere and has one coordinate in common with it
C23_Witness ==
    /\ LastStep = "hull" /\ pc # "failed"
    /\ \E i \in 1..Len(frag[JustBuilt].hull) :
          /\ frag[JustBuilt].hull[i] # frag[JustBuilt].coord[1]
          /\ \E c \in 1..3 : frag[JustBuilt].hull[i][c] = frag[JustBuilt].coord[1][c]
          /\ frag[JustBuilt].hull_ats[i] = frag[JustBuilt].at_labels[1]
          /\ frag[JustBuilt].at_labels[1]
                 \notin LabelsAt(frag[JustBuilt], frag[JustBuilt].hull[i])

-----------------------------------------------------------------------------
(* Failures of the configuration, under Spec *)

\* The run has ended on a format tag or a force field name that is not
\* supported (or a file name no format can be told from)
ConfigFailure ==
    /\ pc = "failed"
    /\ \/ LastStep \in {"determine", "read"} /\ err = "TypeError"
       \/ LastStep = "ffield" /\ err = "TypeError"
       \/ LastStep = "open" /\ err = "TypeError"

\* C24: a run that ends on an unsupported input tag, output tag or force
\* field name ends before minimize is called: no vector has been scored and
\* no fragment has been given the final rotation.
C24_ConfigFailsBeforeSearch ==
    ConfigFailure
        => /\ ~Did("minimize", 1) /\ nevals = 0 /\ opt = Unset
           /\ ~Did("rotate", 1)

\* The run has ended on the output tag after the search and the rotation
C24_Witness ==
    /\ ConfigFailure /\ LastStep = "open" /\ out_t = "pdb"
    /\ nevals > 1 /\ opt.success /\ Did("rotate", 1)
    /\ outfile = Unset

-----------------------------------------------------------------------------
(* The fragment that is turned, under Spec *)

\* C25: the fragment align_frags has treated as rot is the fragment whose
\* hull the objective turns and whose coordinates add_ligand rotates in the
\* end (s_frag), and the anchor of align_frags is the other one (f_frag),
\* also when both hulls have the same number of points.
C25_RotIsTurned ==
    rot # 0 => (rot = s_frag /\ anchor = f_frag)

\* On a tie the final rotation has been applied to the anchor of
\* align_frags, whose hull the objective had turned
C25_Witness ==
    /\ pc = "open" /\ LastStep = "rotate"
    /\ FragLen(frag[1]) = FragLen(frag[2])
    /\ anchor = s_frag /\ rot = f_frag
    /\ frag[anchor].guess_hull # Unset /\ frag[rot].guess_hull = Unset

-----------------------------------------------------------------------------
(* Domain of the rotation parameters, under Spec *)

\* dot(rots, rots) <= 1, the condition under which math.sqrt(aa) is defined
WithinUnitBall(r) == Dot(r.n, r.n) * r.sn <= r.d * r.d * r.sd

\* C26: whatever vector the minimizer passes, the squashed parameters have
\* magnitude at most 1 and score_rotation returns a value: no call of the
\* objective ends in the ValueError of rotate_frag.
C26_SquashedWithinUnitBall ==
    /\ LastStep \in {"minimize", "evaluate"} => err = ""
    /\ pc = "iterate" => WithinUnitBall(expit(x))

\* A call of the objective after the first one has ended in the ValueError
\* of math.sqrt
C26_Witness ==
    /\ pc = "failed" /\ LastStep = "evaluate" /\ err = "ValueError"
    /\ nevals > 1 /\ WithinUnitBall(expit(x))

\* con_mag >= self.precision for the connector c taken from the centroid
LongEnough(c) == Dot(c, c) * PrecisionInv >= Scale * Scale

\* C27: orient_frag does not fail for a connector whose squared distance
\* from the centroid is at least 1e-5, whatever its length and direction:
\* the value under math.sqrt on line 281 is not negative and the parameters
\* handed to rotate have magnitude at most 1.
C27_OrientNeverFails ==
    (LastStep = "orient" /\ LongEnough(frag[cur].connect))
        => err = ""

\* orient_frag has failed in math.sqrt for a connector on the z axis, above
\* the centroid and less than 1 Angstrom from it
C27_Witness ==
    /\ pc = "failed" /\ LastStep = "orient" /\ err = "ValueError"
    /\ LongEnough(frag[cur].connect)
    /\ frag[cur].connect[1] = 0 /\ frag[cur].connect[2] = 0
    /\ frag[cur].connect[3] > 0 /\ frag[cur].connect[3] < Scale
    /\ OrientRots(frag[cur].connect).sn < 0

-----------------------------------------------------------------------------
(* Values of the force field expressions, as bounds in hundredths.  The    *)
(* table is in thousandths, r = sep_fact * polar in millionths.            *)

\* floor and a strict upper bound of 100 * math.sqrt(p / n), lines 503
SqrtRatioLo(p, n) == ISqrt((p * 10000) \div n)

SqrtRatioHi(p, n) == SqrtRatioLo(p, n) + 1

\* Products of two bounds in hundredths, rounded down and up
MulLo(a, b) == (a * b) \div 100

MulHi(a, b) == (a * b) \div 100 + 1

\* sep of lines 461-463 is .5*(r1 + r2) times 1 + .2*(1 - exp(-12*gam12**2)),
\* a factor in [1, 1.2) because 0 < exp(-12*gam12**2) <= 1; the value
\* returned on line 452 for equal labels is .5*(r1 + r1)
SepLo(s) == (s.r1 + s.r2) \div 20000

SepHi(s) == (6 * (s.r1 + s.r2)) \div 100000 + 1

\* sep**6
Pow6Lo(s) == MulLo(MulLo(MulLo(s, s), MulLo(s, s)), MulLo(s, s))

Pow6Hi(s) == MulHi(MulHi(MulHi(s, s), MulHi(s, s)), MulHi(s, s))

\* The divisor of lines 503-504, math.sqrt(p1/n1) + math.sqrt(p2/n2) * sep**6
\* in the precedence Python gives it, for sep**6 = t
DivisorLo(d, t) == SqrtRatioLo(d.p1, d.n1) + MulLo(SqrtRatioLo(d.p2, d.n2), t)

DivisorHi(d, t) == SqrtRatioHi(d.p1, d.n1) + MulHi(SqrtRatioHi(d.p2, d.n2), t)

\* The two values of sep are equal: the expression of lines 461-463 depends
\* on r1 and r2 through r1 + r2 and (r1 - r2)**2 only
SepSame(s1, s2) == {s1.r1, s1.r2} = {s2.r1, s2.r2}

\* The dividends 181.16*g1*g2*p1*p2 of two depths are equal
DividendSame(d1, d2) ==
    /\ <<d1.g1, d1.g2>> \in {<<d2.g1, d2.g2>>, <<d2.g2, d2.g1>>}
    /\ <<d1.p1, d1.p2>> \in {<<d2.p1, d2.p2>>, <<d2.p2, d2.p1>>}

\* The divisor of d1 is smaller than that of d2 for every value sep**6 can
\* have (both divisors are linear in sep**6, so the two ends decide)
DivisorBelow(d1, d2) ==
    \A t \in {Pow6Lo(SepLo(d1.sep)), Pow6Hi(SepHi(d1.sep))} :
        DivisorHi(d1, t) < DivisorLo(d2, t)

\* Two depths computed with equal sep and equal dividends are different
\* numbers
DepthsDiffer(d1, d2) ==
    /\ SepSame(d1.sep, d2.sep)
    /\ DividendSame(d1, d2)
    /\ DivisorBelow(d1, d2) \/ DivisorBelow(d2, d1)

-----------------------------------------------------------------------------
(* Symmetry of the pair energy, under SpecCalls *)

Swapped(label) == <<label[2], label[1]>>

\* C28: sep, depth and inter give the same value for a pair of labels in
\* either order: sep(A, B) = sep(B, A), depth(A, B, s) = depth(B, A, s) and
\* hence inter(d, A, B) = inter(d, B, A).
C28_PairSymmetric ==
    score # Unset
        => /\ SepSame(score.sep, sep_MMFF94(f_field, Swapped(score.label)))
           /\ ~DepthsDiffer(score.depth,
                            depth_MMFF94(f_field, Swapped(score.label), score.sep))
           /\ ~DepthsDiffer(score.inter.w_depth,
                            inter_MMFF94(f_field, score.dist2,
                                         Swapped(score.label)).w_depth)

\* depth has returned for the pair H, C a value smaller than that of the
\* pair C, H: its divisor is the larger one
C28_Witness ==
    /\ score # Unset /\ score.label = <<"H", "C">>
    /\ DivisorBelow(depth_MMFF94(f_field, <<"C", "H">>, score.sep), score.depth)

-----------------------------------------------------------------------------
(* Units of the Turbomole files, under SpecCalls *)

\* The atoms of the k-th input file that are not the connector
InputAtoms(k) ==
    SelectSeq(file[k].atoms, LAMBDA a : Capitalize(a.label) # "X")

\* The constructor has left the coordinates of the k-th file as they were
\* read (centroid at the origin, connector at the centroid)
Untransformed(k) ==
    frag[k].coord = [i \in 1..Len(InputAtoms(k)) |-> InputAtoms(k)[i].pos]

\* C29: a fragment read from a Turbomole file and written, untransformed,
\* to a Turbomole file gives for every atom the numbers of the input file
\* in the unit of the input file (bohr); read back as a Turbomole file the
\* output gives the coordinates of the fragment.
C29_TurbomoleUnitsRoundTrip ==
    (outfile # Unset /\ file_t[2] = "Turbomole" /\ out_t = "Turbomole"
     /\ Untransformed(2))
        => /\ Len(AtomRecords(outfile)) = Len(InputAtoms(2))
           /\ \A i \in 1..Len(InputAtoms(2)) :
                 /\ AtomRecords(outfile)[i].pos = InputAtoms(2)[i].pos
                 /\ AtomRecords(outfile)[i].bexp = -1
           /\ OnGrid(read_coord(outfile))

\* A fragment read from a Turbomole file has been written to a Turbomole
\* file with the positions it was read with; the numbers written are those
\* stored, in Angstrom
C29_Witness ==
    /\ outfile # Unset /\ file_t[2] = "Turbomole" /\ out_t = "Turbomole"
    /\ Untransformed(2) /\ Len(frag[2].coord) = 5
    /\ outfile[1] = CtlLine("$coord")
    /\ \A i \in 1..5 : /\ outfile[i + 1].pos = InputAtoms(2)[i].pos
                        /\ outfile[i + 1].bexp = 0

-----------------------------------------------------------------------------
(* Fragment charges written by assignFrags, under SpecFrags *)

\* The $frag line assignFrags works on
FragLine == FragLineOf(botSpecs, entries)

\* The values given for chrg1, chrg2 and chrg3, in this order, for those of
\* the three options that are present
ChargesGiven(frg) ==
    (IF Has(frg, "chrg1") THEN <<ValueOf(frg, "chrg1")>> ELSE <<>>)
    \o (IF Has(frg, "chrg2") THEN <<ValueOf(frg, "chrg2")>> ELSE <<>>)
    \o (IF Has(frg, "chrg3") THEN <<ValueOf(frg, "chrg3")>> ELSE <<>>)

\* The lines of a complete output between 'cha' and the three empty lines
\* at its end
ChargesWritten(out) ==
    IF \E i \in 1..Len(out) : out[i] = "cha"
        THEN SubSeq(out, 1 + (CHOOSE i \in 1..Len(out) : out[i] = "cha"), Len(out) - 3)
        ELSE <<>>

\* C30: for every subset of chrg1, chrg2, chrg3 present in the $frag line
\* (with valid atom lists), assignFrags does not fail and writes after 'cha'
\* the values given for the options present, in the order chrg1, chrg2,
\* chrg3, each the text that follows its own 'chrgN='.
C30_ChargesAsGiven ==
    (pc # "assignFrags" /\ FragLine.given /\ err # "SystemExit")
        => /\ err = ""
           /\ ChargesWritten(defInp) = ChargesGiven(FragLine)

\* assignFrags has returned for a line with chrg2=1 and chrg3=-2 and has
\* written 1 for both
C30_Witness ==
    /\ pc = "assigned" /\ FragLine.given
    /\ ChargesGiven(FragLine) = <<"1", "-2">> /\ Has(FragLine, "chrg3")
    /\ ~Has(FragLine, "chrg1")
    /\ ChargesWritten(defInp) = <<"1", "1">>

=============================================================================
